---- MODULE Spec2Model ----
(***************************************************************************)
(* The streaming status client of the allergy-risk dashboard:              *)
(* Home.fetchRiskData (frontend/app/page.tsx) reading the server-sent      *)
(* event stream of /api/check-risk-stream, and the step list kept by the   *)
(* useAgentStatus hook (components/LiveAgentStatus).                       *)
(*                                                                         *)
(* Text is a sequence of tokens.  A token is a piece of the response text  *)
(* that the model never cuts: the newline, the "data: " prefix, the head   *)
(* of a JSON object up to its last key, the value that closes it.  A chunk *)
(* boundary of reader.read() may fall between any two tokens.              *)
(***************************************************************************)
EXTENDS Integers, Sequences, FiniteSets, TLC

\* -------------------------------------------------------------------------
\* Bounds of the model
\* -------------------------------------------------------------------------
\* calls of fetchRiskData in one behaviour
MaxRuns == 2
\* records of a response body that is replayed whole (SpecReplay)
MaxBodyLines == 2

Runs == 1..MaxRuns

\* JavaScript null and undefined
Null == "null"
Undefined == "undefined"

\* -------------------------------------------------------------------------
\* The step list of useAgentStatus
\* -------------------------------------------------------------------------
InitialSteps ==
  << [id |-> "fetch_enviro_data", name |-> "Fetching Data...", status |-> "pending"],
     [id |-> "analyze_risk", name |-> "Analyzing Pollen Risks...", status |-> "pending"],
     [id |-> "generate_advice", name |-> "Calculating Safe Duration...", status |-> "pending"],
     [id |-> "done", name |-> "Done.", status |-> "pending"] >>

StepIndexes == DOMAIN InitialSteps

KnownIds == { InitialSteps[i].id : i \in StepIndexes }

\* Array.prototype.findIndex(s => s.id === stepId), 1-based; 0 stands for -1
findIndex(arr, stepId) ==
  IF \E i \in DOMAIN arr : arr[i].id = stepId
  THEN CHOOSE i \in DOMAIN arr :
         /\ arr[i].id = stepId
         /\ \A j \in DOMAIN arr : j < i => arr[j].id # stepId
  ELSE 0

\* updateStep without the loop that marks the previous steps completed
updateStepNoHeal(prevSteps, stepId, status) ==
  LET stepIndex == findIndex(prevSteps, stepId) IN
  IF stepIndex # 0
  THEN [prevSteps EXCEPT ![stepIndex].status = status]
  ELSE prevSteps

\* updateStep without the stepIndex !== -1 test, an id that is not found
\* counting as past the end of the list
updateStepUnguarded(prevSteps, stepId, status) ==
  LET stepIndex == IF findIndex(prevSteps, stepId) # 0
                   THEN findIndex(prevSteps, stepId)
                   ELSE Len(prevSteps) + 1 IN
  [i \in DOMAIN prevSteps |->
     IF i = stepIndex THEN [prevSteps[i] EXCEPT !.status = status]
     ELSE IF i < stepIndex /\ prevSteps[i].status # "completed"
          THEN [prevSteps[i] EXCEPT !.status = "completed"]
          ELSE prevSteps[i]]

\* updateStep that also puts the steps after the named one back to pending
updateStepClearsLater(prevSteps, stepId, status) ==
  LET stepIndex == findIndex(prevSteps, stepId) IN
  IF stepIndex # 0
  THEN [i \in DOMAIN prevSteps |->
          IF i = stepIndex THEN [prevSteps[i] EXCEPT !.status = status]
          ELSE IF i < stepIndex
               THEN [prevSteps[i] EXCEPT !.status = "completed"]
               ELSE [prevSteps[i] EXCEPT !.status = "pending"]]
  ELSE prevSteps

\* the updater that updateStep hands to setSteps
updateStep(prevSteps, stepId, status) ==
  LET stepIndex == findIndex(prevSteps, stepId) IN
  IF stepIndex # 0
  THEN [i \in DOMAIN prevSteps |->
          IF i = stepIndex THEN [prevSteps[i] EXCEPT !.status = status]
          ELSE IF i < stepIndex /\ prevSteps[i].status # "completed"
               THEN [prevSteps[i] EXCEPT !.status = "completed"]
               ELSE prevSteps[i]]
  ELSE prevSteps

resetSteps == InitialSteps

\* -------------------------------------------------------------------------
\* The text of the event stream
\* -------------------------------------------------------------------------
NL == "\n"
DataPrefix == "data: "

\* heads of a JSON object: everything up to and including its last key
HeadStart == "{'type':'step_start','step':"
HeadComplete == "{'type':'step_complete','step':"
HeadResult == "{'type':'result','data':"
HeadError == "{'type':'error','message':"
Heads == {HeadStart, HeadComplete, HeadResult, HeadError}

HeadType(h) ==
  CASE h = HeadStart -> "step_start"
    [] h = HeadComplete -> "step_complete"
    [] h = HeadResult -> "result"
    [] h = HeadError -> "error"

HeadKey(h) ==
  CASE h = HeadStart -> "step"
    [] h = HeadComplete -> "step"
    [] h = HeadResult -> "data"
    [] h = HeadError -> "message"

\* a value followed by the closing brace of the object, and the value it denotes
TailValue ==
  [t \in {"'fetch_enviro_data'}", "'analyze_risk'}", "'generate_advice'}", "'done'}",
          "'cleanup'}", "{'advice':'stay in'}}", "{'advice':'go out'}}", "'upstream failed'}"} |->
     CASE t = "'fetch_enviro_data'}" -> "fetch_enviro_data"
       [] t = "'analyze_risk'}" -> "analyze_risk"
       [] t = "'generate_advice'}" -> "generate_advice"
       [] t = "'done'}" -> "done"
       [] t = "'cleanup'}" -> "cleanup"
       [] t = "{'advice':'stay in'}}" -> "{advice: stay in}"
       [] t = "{'advice':'go out'}}" -> "{advice: go out}"
       [] t = "'upstream failed'}" -> "upstream failed"]

Tails == DOMAIN TailValue

\* complete JSON objects written as one token, and their type
ObjectType ==
  [t \in {"{'type':'step_start'}", "{'type':'step_complete'}", "{'type':'ping'}"} |->
     CASE t = "{'type':'step_start'}" -> "step_start"
       [] t = "{'type':'step_complete'}" -> "step_complete"
       [] t = "{'type':'ping'}" -> "ping"]

Objects == DOMAIN ObjectType

\* JSON.parse on the payload of a record.  ok = FALSE is a SyntaxError;
\* the JSON literal null parses, and reading data.type of it is a TypeError.
JSONParse(payload) ==
  IF Len(payload) = 2 /\ payload[1] \in Heads /\ payload[2] \in Tails
  THEN [ok |-> TRUE, isNull |-> FALSE, type |-> HeadType(payload[1]),
        step |-> IF HeadKey(payload[1]) = "step" THEN TailValue[payload[2]] ELSE Undefined,
        data |-> IF HeadKey(payload[1]) = "data" THEN TailValue[payload[2]] ELSE Undefined,
        message |-> IF HeadKey(payload[1]) = "message" THEN TailValue[payload[2]] ELSE Undefined]
  ELSE IF Len(payload) = 1 /\ payload[1] \in Objects
  THEN [ok |-> TRUE, isNull |-> FALSE, type |-> ObjectType[payload[1]],
        step |-> Undefined, data |-> Undefined, message |-> Undefined]
  ELSE IF payload = <<"null">>
  THEN [ok |-> TRUE, isNull |-> TRUE, type |-> Undefined,
        step |-> Undefined, data |-> Undefined, message |-> Undefined]
  ELSE [ok |-> FALSE, isNull |-> FALSE, type |-> Undefined,
        step |-> Undefined, data |-> Undefined, message |-> Undefined]

\* String.prototype.split('\n'): the pieces between newlines, the last piece
\* being what follows the last newline
RECURSIVE split(_)
split(text) ==
  IF \E i \in DOMAIN text : text[i] = NL
  THEN LET n == CHOOSE i \in DOMAIN text :
                  /\ text[i] = NL
                  /\ \A j \in DOMAIN text : j < i => text[j] # NL
       IN <<SubSeq(text, 1, n - 1)>> \o split(SubSeq(text, n + 1, Len(text)))
  ELSE <<text>>

\* lines after lines.pop(): every piece but the last
CompleteLines(text) == SubSeq(split(text), 1, Len(split(text)) - 1)

\* the text after the last newline thrown away instead of kept
RemainderDropped(text) == <<>>

\* buffer = lines.pop() || ''
Remainder(text) == split(text)[Len(split(text))]

\* a test that takes every non-empty line to begin with the prefix
startsWithAnyField(line, prefix) == Len(line) >= 1

startsWith(line, prefix) == Len(line) >= 1 /\ line[1] = prefix

\* line.slice(6)
slice6(line) == Tail(line)

\* -------------------------------------------------------------------------
\* What the server may write on the stream
\* -------------------------------------------------------------------------
IdTails == {"'fetch_enviro_data'}", "'analyze_risk'}", "'generate_advice'}", "'done'}", "'cleanup'}"}
PayloadTails == {"{'advice':'stay in'}}", "{'advice':'go out'}}"}
MessageTails == {"'upstream failed'}"}

StepLines == { <<DataPrefix, h, t>> : h \in {HeadStart, HeadComplete}, t \in IdTails }
             \cup { <<DataPrefix, "{'type':'step_start'}">> }
ResultLines == { <<DataPrefix, HeadResult, t>> : t \in PayloadTails }
ErrorLines == { <<DataPrefix, HeadError, t>> : t \in MessageTails }
\* a record cut short, and the JSON literal null
MalformedLines == { <<DataPrefix, HeadResult>>, <<DataPrefix, "null">> }
OtherTypeLines == { <<DataPrefix, "{'type':'ping'}">> }
\* the blank separator line, a comment line, and a line of another field
\* whose text from the seventh character on is a whole result object
PlainLines == { <<>>, <<": keep-alive">>, <<"event:", HeadResult, "{'advice':'go out'}}">> }

ServerLines == StepLines \cup ResultLines \cup ErrorLines \cup MalformedLines
               \cup OtherTypeLines \cup PlainLines

\* the body of a response the server has not finished writing
Live == <<"...">>

LiveChunks == { line \o <<NL>> : line \in ServerLines }

\* -------------------------------------------------------------------------
\* The read loop of fetchRiskData on a value of the component state
\* st = [steps, riskData, error, loading, isStreaming]
\* -------------------------------------------------------------------------
\* Dispatch whose result branch leaves out setLoading(false)
DispatchKeepsLoading(st, line) ==
  LET data == JSONParse(slice6(line)) IN
  IF ~data.ok \/ data.isNull
  THEN [threw |-> TRUE, st |-> st]
  ELSE CASE data.type = "step_start" ->
              [threw |-> FALSE, st |-> [st EXCEPT !.steps = updateStep(st.steps, data.step, "active")]]
         [] data.type = "step_complete" ->
              [threw |-> FALSE, st |-> [st EXCEPT !.steps = updateStep(st.steps, data.step, "completed")]]
         [] data.type = "result" ->
              [threw |-> FALSE, st |-> [st EXCEPT !.riskData = data.data,
                                                  !.isStreaming = FALSE]]
         [] data.type = "error" ->
              [threw |-> TRUE, st |-> st]
         [] OTHER -> [threw |-> FALSE, st |-> st]

\* Dispatch without the step_complete branch
DispatchIgnoresComplete(st, line) ==
  LET data == JSONParse(slice6(line)) IN
  IF ~data.ok \/ data.isNull
  THEN [threw |-> TRUE, st |-> st]
  ELSE CASE data.type = "step_start" ->
              [threw |-> FALSE, st |-> [st EXCEPT !.steps = updateStep(st.steps, data.step, "active")]]
         [] data.type = "result" ->
              [threw |-> FALSE, st |-> [st EXCEPT !.riskData = data.data,
                                                  !.isStreaming = FALSE,
                                                  !.loading = FALSE]]
         [] data.type = "error" ->
              [threw |-> TRUE, st |-> st]
         [] OTHER -> [threw |-> FALSE, st |-> st]

\* the body of the inner try: JSON.parse and the dispatch on data.type
Dispatch(st, line) ==
  LET data == JSONParse(slice6(line)) IN
  IF ~data.ok \/ data.isNull
  THEN [threw |-> TRUE, st |-> st]
  ELSE CASE data.type = "step_start" ->
              [threw |-> FALSE, st |-> [st EXCEPT !.steps = updateStep(st.steps, data.step, "active")]]
         [] data.type = "step_complete" ->
              [threw |-> FALSE, st |-> [st EXCEPT !.steps = updateStep(st.steps, data.step, "completed")]]
         [] data.type = "result" ->
              [threw |-> FALSE, st |-> [st EXCEPT !.riskData = data.data,
                                                  !.isStreaming = FALSE,
                                                  !.loading = FALSE]]
         [] data.type = "error" ->
              [threw |-> TRUE, st |-> st]
         [] OTHER -> [threw |-> FALSE, st |-> st]

\* ApplyLine without the inner try: what the body throws reaches the
\* outer catch
ApplyLineFatal(st, line) ==
  IF startsWith(line, DataPrefix)
  THEN LET r == Dispatch(st, line) IN
       IF r.threw
       THEN [r.st EXCEPT !.error = "Unexpected end of JSON input",
                         !.isStreaming = FALSE, !.loading = FALSE]
       ELSE r.st
  ELSE st

\* one iteration of `for (const line of lines)`: whatever the try body
\* throws is caught by the inner catch, which only logs
ApplyLine(st, line) ==
  IF startsWith(line, DataPrefix)
  THEN LET r == Dispatch(st, line) IN
       IF r.threw THEN st ELSE r.st
  ELSE st

RECURSIVE ApplyLines(_, _)
ApplyLines(st, lines) ==
  IF lines = <<>> THEN st
  ELSE ApplyLines(ApplyLine(st, Head(lines)), Tail(lines))

\* the loop body after a read that was not done
OnChunk(st, buf, chunk) ==
  LET text == buf \o chunk IN
  [st |-> ApplyLines(st, CompleteLines(text)), buffer |-> Remainder(text)]

\* the catch block without setIsStreaming(false)
CatchKeepsStreaming(st, err) ==
  [st EXCEPT !.error = IF err.isError THEN err.message ELSE "Failed to fetch risk data",
             !.loading = FALSE]

\* the outer catch block
Catch(st, err) ==
  [st EXCEPT !.error = IF err.isError THEN err.message ELSE "Failed to fetch risk data",
             !.isStreaming = FALSE,
             !.loading = FALSE]

Thrown(message) == [isError |-> TRUE, message |-> message]

\* what fetch and reader.read() may reject with
Rejections == { Thrown("Failed to fetch"), [isError |-> FALSE, message |-> Undefined] }

\* -------------------------------------------------------------------------
\* User input
\* -------------------------------------------------------------------------
\* String.prototype.trim on the texts a user types
trim ==
  [s \in {"", " ", "Boston, MA", "pollen", " dust"} |->
     CASE s = "" -> ""
       [] s = " " -> ""
       [] s = "Boston, MA" -> "Boston, MA"
       [] s = "pollen" -> "pollen"
       [] s = " dust" -> "dust"]

Locations == {"", " ", "Boston, MA"}

\* the allergies field, as the pieces manualAllergies.split(',') yields
AllergyTexts == { <<"">>, <<" ", "">>, <<"pollen", " dust">> }

\* .map(a => a.trim()).filter(a => a.length > 0)
allergiesList(pieces) ==
  SelectSeq([i \in DOMAIN pieces |-> trim[pieces[i]]], LAMBDA a : a # "")

Falsy(v) == v \in {Null, Undefined, ""}

\* -------------------------------------------------------------------------
\* State
\* -------------------------------------------------------------------------
VARIABLES
  riskData,        \* useState<RiskData | null>(null)
  loading,         \* useState(false)
  error,           \* useState<string | null>(null)
  isStreaming,     \* useState(false)
  useManualInput,  \* useState(false)
  steps,           \* useAgentStatus().steps
  geo,             \* the getCurrentPosition request of the mount effect, and the
                   \* riskData and loading its callback closed over
  pc,              \* position of each call of fetchRiskData
  buffer,          \* `buffer` of each call
  body,            \* the response body of each call: its text, or Live
  pos              \* tokens of the body that reader.read() has returned

vars == <<riskData, loading, error, isStreaming, useManualInput, steps, geo,
          pc, buffer, body, pos>>

St == [steps |-> steps, riskData |-> riskData, error |-> error,
       loading |-> loading, isStreaming |-> isStreaming]

SetSt(st) ==
  /\ steps' = st.steps
  /\ riskData' = st.riskData
  /\ error' = st.error
  /\ loading' = st.loading
  /\ isStreaming' = st.isStreaming

InFlight == { r \in Runs : pc[r] \in {"fetching", "reading"} }

Init ==
  /\ riskData = Null
  /\ loading = FALSE
  /\ error = Null
  /\ isStreaming = FALSE
  /\ useManualInput = FALSE
  /\ steps = InitialSteps
  /\ geo = [status |-> "pending", riskData |-> Null, loading |-> FALSE]
  /\ pc = [r \in Runs |-> "idle"]
  /\ buffer = [r \in Runs |-> <<>>]
  /\ body = [r \in Runs |-> Live]
  /\ pos = [r \in Runs |-> 0]

\* -------------------------------------------------------------------------
\* fetchRiskData
\* -------------------------------------------------------------------------
\* the call slot a new call of fetchRiskData takes
NextRun == CHOOSE r \in Runs : pc[r] = "idle" /\ \A q \in Runs : q < r => pc[q] # "idle"

\* fetchRiskDataStart without the call of resetSteps
fetchRiskDataStartNoReset(st, loc, allergies) ==
  LET started == [st EXCEPT !.loading = TRUE, !.error = Null, !.isStreaming = TRUE] IN
  IF Falsy(loc) \/ Falsy(trim[loc])
  THEN [threw |-> TRUE, st |-> Catch(started, Thrown("Please enter a location"))]
  ELSE IF Len(allergies) = 0
  THEN [threw |-> TRUE, st |-> Catch(started, Thrown("Please enter allergies"))]
  ELSE [threw |-> FALSE, st |-> started]

\* fetchRiskDataStart testing !loc only, not !loc.trim()
fetchRiskDataStartNoTrim(st, loc, allergies) ==
  LET started == [st EXCEPT !.loading = TRUE, !.error = Null, !.isStreaming = TRUE,
                            !.steps = resetSteps] IN
  IF Falsy(loc)
  THEN [threw |-> TRUE, st |-> Catch(started, Thrown("Please enter a location"))]
  ELSE IF Len(allergies) = 0
  THEN [threw |-> TRUE, st |-> Catch(started, Thrown("Please enter allergies"))]
  ELSE [threw |-> FALSE, st |-> started]

\* the synchronous part: the four setters, the two input checks and, when
\* one of them throws, the outer catch
fetchRiskDataStart(st, loc, allergies) ==
  LET started == [st EXCEPT !.loading = TRUE, !.error = Null, !.isStreaming = TRUE,
                            !.steps = resetSteps] IN
  IF Falsy(loc) \/ Falsy(trim[loc])
  THEN [threw |-> TRUE, st |-> Catch(started, Thrown("Please enter a location"))]
  ELSE IF Len(allergies) = 0
  THEN [threw |-> TRUE, st |-> Catch(started, Thrown("Please enter allergies"))]
  ELSE [threw |-> FALSE, st |-> started]

CallFetchRiskData(loc, allergies) ==
  /\ \E r \in Runs : pc[r] = "idle"
  /\ LET r == NextRun
         res == fetchRiskDataStart(St, loc, allergies) IN
     /\ SetSt(res.st)
     /\ pc' = [pc EXCEPT ![r] = IF res.threw THEN "caught" ELSE "fetching"]
  /\ UNCHANGED <<buffer, body, pos>>

\* `await fetch(...)` settles: it rejects, or resolves with a response that
\* is not ok, has no body, or can be read
FetchSettles(r) ==
  /\ pc[r] = "fetching"
  /\ \/ \E err \in Rejections :
          /\ SetSt(Catch(St, err))
          /\ pc' = [pc EXCEPT ![r] = "caught"]
     \/ \E msg \in {"API error: Internal Server Error", "No response body"} :
          /\ SetSt(Catch(St, Thrown(msg)))
          /\ pc' = [pc EXCEPT ![r] = "caught"]
     \/ /\ pc' = [pc EXCEPT ![r] = "reading"]
        /\ UNCHANGED <<riskData, loading, error, isStreaming, steps>>
  /\ UNCHANGED <<useManualInput, geo, buffer, body, pos>>

\* what remains of the response body of call r
Remaining(r) == SubSeq(body[r], pos[r] + 1, Len(body[r]))

\* the chunks reader.read() may resolve with.  While the server is still
\* producing the body (body[r] = Live) a chunk is one record; of a body that
\* is already determined it is any non-empty prefix of what remains.
Deliverable(r) ==
  IF body[r] = Live
  THEN LiveChunks
  ELSE { SubSeq(Remaining(r), 1, n) : n \in 1..Len(Remaining(r)) }

\* reader.read() resolves with a chunk: one pass of the loop body
ReadChunk(r) ==
  /\ pc[r] = "reading"
  /\ \E chunk \in Deliverable(r) :
       LET res == OnChunk(St, buffer[r], chunk) IN
       /\ SetSt(res.st)
       /\ buffer' = [buffer EXCEPT ![r] = res.buffer]
       /\ pos' = [pos EXCEPT ![r] = IF body[r] = Live THEN @ ELSE @ + Len(chunk)]
  /\ UNCHANGED <<useManualInput, geo, pc, body>>

\* ReadDone that ends the run as the result branch does
ReadDoneFinalizes(r) ==
  /\ pc[r] = "reading"
  /\ body[r] = Live \/ Remaining(r) = <<>>
  /\ pc' = [pc EXCEPT ![r] = "returned"]
  /\ loading' = FALSE
  /\ isStreaming' = FALSE
  /\ UNCHANGED <<riskData, error, useManualInput, steps, geo, buffer, body, pos>>

\* ReadDone that parses what is left in the buffer as a last record
ReadDoneFlushes(r) ==
  /\ pc[r] = "reading"
  /\ body[r] = Live \/ Remaining(r) = <<>>
  /\ pc' = [pc EXCEPT ![r] = "returned"]
  /\ SetSt(ApplyLine(St, buffer[r]))
  /\ UNCHANGED <<useManualInput, geo, buffer, body, pos>>

\* reader.read() resolves with done: break, and the function returns
ReadDone(r) ==
  /\ pc[r] = "reading"
  /\ body[r] = Live \/ Remaining(r) = <<>>
  /\ pc' = [pc EXCEPT ![r] = "returned"]
  /\ UNCHANGED <<riskData, loading, error, isStreaming, useManualInput, steps, geo,
                 buffer, body, pos>>

\* reader.read() rejects: the outer catch
ReadRejects(r) ==
  /\ pc[r] = "reading"
  /\ \E err \in Rejections : SetSt(Catch(St, err))
  /\ pc' = [pc EXCEPT ![r] = "caught"]
  /\ UNCHANGED <<useManualInput, geo, buffer, body, pos>>

\* -------------------------------------------------------------------------
\* The page
\* -------------------------------------------------------------------------
\* the success callback of getCurrentPosition, with the riskData and loading
\* of the render whose effect registered it
GeoSuccess ==
  /\ geo.status = "pending"
  /\ geo' = [geo EXCEPT !.status = "settled"]
  /\ IF Falsy(geo.riskData) /\ ~geo.loading
     THEN CallFetchRiskData("Boston, MA", <<"pollen", "dust">>)
     ELSE UNCHANGED <<riskData, loading, error, isStreaming, steps, pc, buffer, body, pos>>
  /\ UNCHANGED useManualInput

\* the error callback of getCurrentPosition
GeoError ==
  /\ geo.status = "pending"
  /\ geo' = [geo EXCEPT !.status = "settled"]
  /\ useManualInput' = TRUE
  /\ UNCHANGED <<riskData, loading, error, isStreaming, steps, pc, buffer, body, pos>>

\* the condition under which the manual form is rendered
FormVisible == (Falsy(riskData) \/ useManualInput) /\ ~loading /\ ~isStreaming

\* the condition under which LiveAgentStatus, the step list, is rendered
StepListVisible == isStreaming

\* the condition under which the results dashboard is rendered
ResultsVisible == ~Falsy(riskData) /\ ~loading

handleManualSubmit ==
  /\ FormVisible
  /\ \E manualLocation \in Locations, manualAllergies \in AllergyTexts :
       IF Len(allergiesList(manualAllergies)) = 0
       THEN /\ error' = "Please enter at least one allergy"
            /\ UNCHANGED <<riskData, loading, isStreaming, steps, pc, buffer, body, pos>>
       ELSE CallFetchRiskData(manualLocation, allergiesList(manualAllergies))
  /\ UNCHANGED <<useManualInput, geo>>

\* "Enter Location Manually" / "Or enter location manually"
ClickManualInput ==
  /\ FormVisible
  /\ ~useManualInput
  /\ useManualInput' = TRUE
  /\ UNCHANGED <<riskData, loading, error, isStreaming, steps, geo, pc, buffer, body, pos>>

\* "Check Another Location"
ClickCheckAnother ==
  /\ ResultsVisible
  /\ riskData' = Null
  /\ useManualInput' = TRUE
  /\ error' = Null
  /\ UNCHANGED <<loading, isStreaming, steps, geo, pc, buffer, body, pos>>

Next ==
  \/ GeoSuccess
  \/ GeoError
  \/ handleManualSubmit
  \/ ClickManualInput
  \/ ClickCheckAnother
  \/ \E r \in Runs : FetchSettles(r)
  \/ \E r \in Runs : ReadChunk(r)
  \/ \E r \in Runs : ReadDone(r)
  \/ \E r \in Runs : ReadRejects(r)

Spec == Init /\ [][Next]_vars

\* -------------------------------------------------------------------------
\* One call of fetchRiskData reading a response body that is already whole
\* -------------------------------------------------------------------------
RECURSIVE Join(_)
Join(lines) ==
  IF lines = <<>> THEN <<>>
  ELSE Head(lines) \o <<NL>> \o Join(Tail(lines))

\* the stream of a run in which every step succeeds
HappyLines ==
  << <<DataPrefix, HeadStart, "'fetch_enviro_data'}">>,
     <<DataPrefix, HeadComplete, "'fetch_enviro_data'}">>,
     <<DataPrefix, HeadStart, "'analyze_risk'}">>,
     <<DataPrefix, HeadComplete, "'analyze_risk'}">>,
     <<DataPrefix, HeadStart, "'generate_advice'}">>,
     <<DataPrefix, HeadComplete, "'generate_advice'}">>,
     <<DataPrefix, HeadStart, "'done'}">>,
     <<DataPrefix, HeadComplete, "'done'}">>,
     <<DataPrefix, HeadResult, "{'advice':'stay in'}}">> >>

\* the stream of a run whose second step fails
FailingLines ==
  << <<DataPrefix, HeadStart, "'fetch_enviro_data'}">>,
     <<DataPrefix, HeadComplete, "'fetch_enviro_data'}">>,
     <<DataPrefix, HeadStart, "'analyze_risk'}">>,
     <<DataPrefix, HeadError, "'upstream failed'}">> >>

LineSeqs == UNION { [1..k -> ServerLines] : k \in 0..MaxBodyLines }

\* every body of at most MaxBodyLines records, the last one with or without
\* its newline, and the two scenarios
Bodies ==
  { Join(ls) : ls \in LineSeqs }
  \cup { SubSeq(Join(ls), 1, Len(Join(ls)) - 1) : ls \in LineSeqs \ {<<>>} }
  \cup { Join(HappyLines), Join(FailingLines) }

\* the component state when the read loop of the first call starts
ReplayStart ==
  [steps |-> InitialSteps, riskData |-> Null, error |-> Null,
   loading |-> TRUE, isStreaming |-> TRUE]

InitReplay ==
  /\ riskData = ReplayStart.riskData
  /\ loading = ReplayStart.loading
  /\ error = ReplayStart.error
  /\ isStreaming = ReplayStart.isStreaming
  /\ useManualInput = FALSE
  /\ steps = ReplayStart.steps
  /\ geo = [status |-> "settled", riskData |-> Null, loading |-> FALSE]
  /\ pc = [r \in Runs |-> IF r = 1 THEN "reading" ELSE "idle"]
  /\ buffer = [r \in Runs |-> <<>>]
  /\ body \in { [r \in Runs |-> IF r = 1 THEN b ELSE Live] : b \in Bodies }
  /\ pos = [r \in Runs |-> 0]

NextReplay ==
  \/ ReadChunk(1)
  \/ ReadDone(1)
  \/ ReadRejects(1)

SpecReplay == InitReplay /\ [][NextReplay]_vars

\* the records the read loop of call r has applied so far
Applied(r) == CompleteLines(SubSeq(body[r], 1, pos[r]))

\* the component state after ReadChunk(r) resolves with this chunk
AfterChunk(r, chunk) == OnChunk(St, buffer[r], chunk).st

\* the records that ReadChunk(r) applies when it resolves with this chunk
LinesOf(r, chunk) == CompleteLines(buffer[r] \o chunk)

Last(seq) == seq[Len(seq)]

IsRecord(line, head, tails) ==
  /\ Len(line) = 3
  /\ line[1] = DataPrefix
  /\ line[2] = head
  /\ line[3] \in tails

IndexOf(id) == CHOOSE i \in StepIndexes : InitialSteps[i].id = id

Reading(r) == pc[r] \in {"reading", "returned"} /\ body[r] # Live

\* -------------------------------------------------------------------------
\* Claims
\* -------------------------------------------------------------------------

\* C1: once the read loop has applied an error record with message m, the
\* error state holds m and loading and isStreaming are both false.
C1_ErrorRecordFailsRun ==
  \A r \in Runs :
    (Reading(r) /\ Applied(r) # <<>> /\ IsRecord(Last(Applied(r)), HeadError, MessageTails))
      => /\ error = TailValue[Last(Applied(r))[3]]
         /\ ~loading
         /\ ~isStreaming

\* C2: whenever a read of a call in its read loop applies a result record
\* with payload p as its last record, riskData is p and loading and
\* isStreaming are false afterwards, whatever the component state was.
C2_ResultStoresPayload ==
  \A r \in Runs :
    pc[r] = "reading" =>
      \A chunk \in Deliverable(r) :
        (LinesOf(r, chunk) # <<>> /\ IsRecord(Last(LinesOf(r, chunk)), HeadResult, PayloadTails))
          => /\ AfterChunk(r, chunk).riskData = TailValue[Last(LinesOf(r, chunk))[3]]
             /\ ~AfterChunk(r, chunk).loading
             /\ ~AfterChunk(r, chunk).isStreaming

\* a result was applied while the first step was still active
C2_Witness ==
  /\ \E r \in Runs : pc[r] = "reading"
  /\ riskData = "{advice: go out}"
  /\ ~loading
  /\ ~isStreaming
  /\ steps[1].status = "active"

\* C3: whenever a read applies step_start or step_complete of a known step
\* id as its last record, that step has the status of the event (active,
\* completed) and every step before it is completed afterwards, whatever
\* the step list was.
C3_UpdateStepHeals ==
  \A r \in Runs :
    pc[r] = "reading" =>
      \A chunk \in Deliverable(r), head \in {HeadStart, HeadComplete} :
        (LinesOf(r, chunk) # <<>> /\ IsRecord(Last(LinesOf(r, chunk)), head, IdTails)
           /\ TailValue[Last(LinesOf(r, chunk))[3]] \in KnownIds)
          => LET i == IndexOf(TailValue[Last(LinesOf(r, chunk))[3]])
                 after == AfterChunk(r, chunk).steps
             IN /\ after[i].status = IF head = HeadStart THEN "active" ELSE "completed"
                /\ \A j \in StepIndexes : j < i => after[j].status = "completed"

\* analyze_risk is active and fetch_enviro_data completed in a read loop
C3_Witness ==
  /\ \E r \in Runs : pc[r] = "reading"
  /\ steps[2].status = "active"
  /\ steps[1].status = "completed"
  /\ steps[3].status = "pending"

\* C4: within one run no step that is completed becomes active or pending
\* again.
C4_NoRegress ==
  [][\A i \in StepIndexes :
       steps[i].status = "completed" => steps'[i].status = "completed"]_vars

\* C5: at most one step is active, and every step before an active or
\* completed step is completed.
C5_OneActivePrefixCompleted ==
  /\ Cardinality({ i \in StepIndexes : steps[i].status = "active" }) <= 1
  /\ \A i \in StepIndexes :
       steps[i].status # "pending"
         => \A j \in StepIndexes : j < i => steps[j].status = "completed"

\* C6: however reader.read() cuts the response body into chunks, the
\* component state at every point of the read loop, and so when it ends, is
\* the one reached by reading the same text in a single chunk.
C6_ChunkingIrrelevant ==
  \A r \in Runs :
    Reading(r) =>
      /\ St = OnChunk(ReplayStart, <<>>, SubSeq(body[r], 1, pos[r])).st
      /\ buffer[r] = OnChunk(ReplayStart, <<>>, SubSeq(body[r], 1, pos[r])).buffer
      /\ pc[r] = "returned" => St = OnChunk(ReplayStart, <<>>, body[r]).st

\* the read loop ended after the whole stream of a successful run
C6_Witness ==
  /\ pc[1] = "returned"
  /\ body[1] = Join(HappyLines)
  /\ riskData = "{advice: stay in}"
  /\ \A i \in StepIndexes : steps[i].status = "completed"

\* a data record whose payload JSON.parse rejects
Malformed(line) == startsWith(line, DataPrefix) /\ ~JSONParse(slice6(line)).ok

\* C7: the component state in the read loop is the one the applied records
\* yield with the malformed records left out: a malformed record changes
\* nothing and the records after it are applied as usual.
C7_MalformedDiscarded ==
  \A r \in Runs :
    Reading(r) =>
      St = ApplyLines(ReplayStart, SelectSeq(Applied(r), LAMBDA l : ~Malformed(l)))

\* a result record was applied after a malformed record
C7_Witness ==
  /\ pc[1] = "returned"
  /\ Applied(1) = << <<DataPrefix, HeadResult>>,
                     <<DataPrefix, HeadResult, "{'advice':'go out'}}">> >>
  /\ riskData = "{advice: go out}"
  /\ error = Null

\* a step event whose step id is missing or not one of the four known ids
UnknownStep(line) ==
  /\ startsWith(line, DataPrefix)
  /\ JSONParse(slice6(line)).ok
  /\ JSONParse(slice6(line)).type \in {"step_start", "step_complete"}
  /\ JSONParse(slice6(line)).step \notin KnownIds

\* C8: the component state in the read loop is the one the applied records
\* yield with the step events of unknown or missing step ids left out, and
\* no error is set: such an event changes nothing and the records after it
\* are applied as usual.
C8_UnknownStepIgnored ==
  \A r \in Runs :
    Reading(r) =>
      /\ St = ApplyLines(ReplayStart, SelectSeq(Applied(r), LAMBDA l : ~UnknownStep(l)))
      /\ error = Null

\* step_start of a known step was applied after step_start of an unknown one
C8_Witness ==
  /\ pc[1] = "returned"
  /\ Applied(1) = << <<DataPrefix, HeadStart, "'cleanup'}">>,
                     <<DataPrefix, HeadStart, "'analyze_risk'}">> >>
  /\ steps[1].status = "completed"
  /\ steps[2].status = "active"
  /\ steps[3].status = "pending"
  /\ error = Null

\* C9: within one run, once a result is stored no error is stored any more,
\* and once an error is stored the result no longer changes.
C9_TerminalOutcomeStable ==
  [][/\ riskData # Null => error' = Null
     /\ error # Null => riskData' = riskData]_vars

\* C10: at most one call of fetchRiskData is in flight at any time.
C10_AtMostOneRunInFlight == Cardinality(InFlight) <= 1

\* a call of fetchRiskData is made in this step
Called(r) == pc[r] = "idle" /\ pc'[r] # "idle"

\* C11: every call of fetchRiskData leaves all four steps pending, whatever
\* their statuses were, before the call reads anything.
C11_CallResetsSteps ==
  [][(\E r \in Runs : Called(r))
       => /\ steps' = InitialSteps
          /\ \A r \in Runs : Called(r) => pc'[r] \in {"fetching", "caught"}]_vars

\* the second call has been made after the first one completed steps and
\* stored a result, and the steps are pending again
C11_Witness ==
  /\ pc[1] \in {"reading", "returned"}
  /\ ~Falsy(riskData)
  /\ pc[2] = "fetching"
  /\ \A i \in StepIndexes : steps[i].status = "pending"

\* C12: a call of fetchRiskData that passes its input checks, and a click
\* on "Check Another Location", leave both riskData and error null.
C12_NewRunClearsOutput ==
  [][((\E r \in Runs : pc[r] = "idle" /\ pc'[r] = "fetching") \/ ClickCheckAnother)
       => riskData' = Null /\ error' = Null]_vars

\* the inputs the checks of fetchRiskData reject
InvalidLocations == {"", " "}
SomeAllergies == { <<>>, <<"pollen">>, <<"pollen", "dust">> }
AllergyMessage == "Please enter at least one allergy"

\* C13: in every reachable state, fetchRiskData called with an empty or
\* whitespace-only location, or with an empty allergy list, throws before
\* the request, with an error message, every step pending and loading and
\* isStreaming false; a call that throws never gets to fetch; and the
\* empty-allergy check of handleManualSubmit sets its message with no call
\* made, no step changed and loading and isStreaming false.
C13_InvalidInputFails ==
  /\ [](\A loc \in Locations, allergies \in SomeAllergies :
          (loc \in InvalidLocations \/ allergies = <<>>)
            => LET res == fetchRiskDataStart(St, loc, allergies) IN
               /\ res.threw
               /\ res.st.error \in {"Please enter a location", "Please enter allergies"}
               /\ ~res.st.loading
               /\ ~res.st.isStreaming
               /\ \A i \in StepIndexes : res.st.steps[i].status = "pending")
  /\ [][/\ \A r \in Runs :
             (pc[r] = "idle" /\ pc'[r] = "caught")
               => /\ error' \in {"Please enter a location", "Please enter allergies"}
                  /\ ~loading' /\ ~isStreaming'
                  /\ \A i \in StepIndexes : steps'[i].status = "pending"
                  /\ \A q \in Runs : pc'[q] = "fetching" => pc[q] = "fetching"
        /\ (error' = AllergyMessage /\ error # AllergyMessage)
               => /\ ~loading' /\ ~isStreaming'
                  /\ steps' = steps
                  /\ pc' = pc]_vars

\* a call with a blank location has ended in the catch block
C13_Witness ==
  /\ pc[1] = "caught"
  /\ pc[2] = "idle"
  /\ error = "Please enter a location"
  /\ ~loading
  /\ ~isStreaming
  /\ steps = InitialSteps

\* C14: when fetch rejects, the response is not ok or has no body, or
\* reader.read() rejects, error is a message and loading and isStreaming
\* are false.
C14_TransportFailureFails ==
  [][\A r \in Runs :
       (pc[r] \in {"fetching", "reading"} /\ pc'[r] = "caught")
         => /\ error' # Null
            /\ error' # Undefined
            /\ ~loading'
            /\ ~isStreaming']_vars

\* reader.read() rejected, with something that is not an Error, after the
\* first step was completed
C14_Witness ==
  /\ pc[1] = "caught"
  /\ pc[2] = "idle"
  /\ error = "Failed to fetch risk data"
  /\ steps[1].status = "completed"
  /\ ~loading
  /\ ~isStreaming

TerminalRecord(line) ==
  IsRecord(line, HeadResult, Tails) \/ IsRecord(line, HeadError, Tails)

\* C15: when the read loop has ended at the end of the stream and applied
\* neither a result nor an error record, loading and isStreaming are still
\* true, error is null and riskData is what it was.
C15_EndOfStreamStaysLoading ==
  \A r \in Runs :
    (Reading(r) /\ pc[r] = "returned"
       /\ \A k \in DOMAIN Applied(r) : ~TerminalRecord(Applied(r)[k]))
      => /\ loading
         /\ isStreaming
         /\ error = Null
         /\ riskData = ReplayStart.riskData

\* the stream ended after step_start of the first step
C15_Witness ==
  /\ pc[1] = "returned"
  /\ Applied(1) = << <<DataPrefix, HeadStart, "'fetch_enviro_data'}">> >>
  /\ steps[1].status = "active"
  /\ loading
  /\ isStreaming
  /\ error = Null

\* C16: reading the stream of a successful run, no step is completed before
\* the step in front of it, all four are completed once the result is
\* stored, and the loop ends with riskData the payload, error null and
\* loading and isStreaming false.
C16_HappyRunSucceeds ==
  \A r \in Runs :
    (Reading(r) /\ body[r] = Join(HappyLines))
      => /\ \A k \in StepIndexes :
              (k > 1 /\ steps[k].status = "completed") => steps[k - 1].status = "completed"
         /\ ~Falsy(riskData) => \A i \in StepIndexes : steps[i].status = "completed"
         /\ pc[r] = "returned"
              => /\ riskData = "{advice: stay in}"
                 /\ error = Null
                 /\ ~loading
                 /\ ~isStreaming
                 /\ \A i \in StepIndexes : steps[i].status = "completed"

\* the read loop of the successful run has ended, succeeded
C16_Witness ==
  /\ pc[1] = "returned"
  /\ Applied(1) = HappyLines
  /\ riskData = "{advice: stay in}"
  /\ error = Null
  /\ ~loading

\* C17: when a run fails in its read loop the steps keep their statuses and
\* the step list is still rendered.
C17_ProgressStaysVisible ==
  [][\A r \in Runs :
       (pc[r] = "reading" /\ pc'[r] = "caught")
         => steps' = steps /\ StepListVisible']_vars

\* C18: the step list always has the four steps of the initial list, with
\* their ids and names in that order, and a read that applies one step
\* event of a known id leaves the status of every later step as it was.
C18_StepListShapeFixed ==
  /\ Len(steps) = Len(InitialSteps)
  /\ \A i \in StepIndexes :
       steps[i].id = InitialSteps[i].id /\ steps[i].name = InitialSteps[i].name
  /\ \A r \in Runs :
       pc[r] = "reading" =>
         \A chunk \in Deliverable(r), head \in {HeadStart, HeadComplete} :
           (Len(LinesOf(r, chunk)) = 1 /\ IsRecord(LinesOf(r, chunk)[1], head, IdTails)
              /\ TailValue[LinesOf(r, chunk)[1][3]] \in KnownIds)
             => \A j \in StepIndexes :
                  j > IndexOf(TailValue[LinesOf(r, chunk)[1][3]])
                    => AfterChunk(r, chunk).steps[j] = steps[j]

\* the last step is still active after a later event for the first step
C18_Witness ==
  /\ \E r \in Runs : pc[r] = "reading"
  /\ steps[1].status = "active"
  /\ steps[4].status = "active"
  /\ \A i \in StepIndexes : steps[i].id = InitialSteps[i].id

\* C19: loading equals isStreaming in every reachable state.
C19_LoadingEqualsStreaming == loading = isStreaming

\* two calls are in flight and a result of one of them has switched both
\* flags off
C19_Witness ==
  /\ Cardinality(InFlight) = 2
  /\ ~Falsy(riskData)
  /\ ~loading
  /\ ~isStreaming

\* C20: when the read loop ends with text after the last newline of the
\* body, the component state is the one the terminated records yield and
\* the text is still in the buffer, unparsed.
C20_UnterminatedTailIgnored ==
  \A r \in Runs :
    (Reading(r) /\ pc[r] = "returned" /\ Remainder(body[r]) # <<>>)
      => /\ St = ApplyLines(ReplayStart, CompleteLines(body[r]))
         /\ buffer[r] = Remainder(body[r])

\* the stream ended with a whole result record that lacks its newline
C20_Witness ==
  /\ pc[1] = "returned"
  /\ body[1] = <<DataPrefix, HeadResult, "{'advice':'go out'}}">>
  /\ buffer[1] = body[1]
  /\ riskData = Null
  /\ loading
  /\ isStreaming

\* a line that does not begin with `data: `
NoDataPrefix(line) == line = <<>> \/ Head(line) # DataPrefix

\* a data record whose JSON is an object of a type the loop does not know
OtherType(line) ==
  /\ line # <<>>
  /\ Head(line) = DataPrefix
  /\ JSONParse(Tail(line)).ok
  /\ ~JSONParse(Tail(line)).isNull
  /\ JSONParse(Tail(line)).type \notin {"step_start", "step_complete", "result", "error"}

\* C21: the component state in the read loop is the one the applied lines
\* yield with the lines that lack the `data: ` prefix and the data records
\* of an unknown type left out: such a line changes none of steps,
\* riskData, error, loading and isStreaming, and the lines after it are
\* applied as usual.
C21_OtherLinesIgnored ==
  \A r \in Runs :
    Reading(r) =>
      St = ApplyLines(ReplayStart,
                      SelectSeq(Applied(r), LAMBDA l : ~NoDataPrefix(l) /\ ~OtherType(l)))

\* step_start of a known step was applied after a line of another field
\* that carries a result object
C21_Witness ==
  /\ pc[1] = "returned"
  /\ Applied(1) = << <<"event:", HeadResult, "{'advice':'go out'}}">>,
                     <<DataPrefix, HeadStart, "'analyze_risk'}">> >>
  /\ riskData = Null
  /\ steps[2].status = "active"
  /\ loading
  /\ isStreaming

TypeOK ==
  /\ loading \in BOOLEAN
  /\ isStreaming \in BOOLEAN
  /\ pc \in [Runs -> {"idle", "fetching", "reading", "returned", "caught"}]

====
